---- MODULE Spec2Model ----
(***************************************************************************)
(* A model of the martin tile server: the multi-source tile handler and    *)
(* get_sources (src/srv/server.rs), the TileJSON merger (server.rs), the   *)
(* SRID resolution and SQL template builder (src/pg/table_source.rs) and   *)
(* the refresh coordinator (src/coordinator_actor.rs).                     *)
(*                                                                         *)
(* Strings are sequences of one-character strings, so that splitting,      *)
(* escaping and formatting are computed and not assumed.  An Option<T> is  *)
(* a sequence of length at most one: None is <<>>, Some(x) is <<x>>.       *)
(***************************************************************************)
EXTENDS Integers, Sequences, FiniteSets, TLC

None == <<>>
Some(x) == <<x>>

\* ------------------------------------------------------------------ bounds

\* Longest source_ids path segment, in characters ("a,b,c" has five).
MaxPathLen == 5
\* Largest zoom level a request asks for.
MaxZ == 1
\* Number of RefreshSources messages the coordinator is given.
MaxRefresh == 1
\* Number of Connect messages the coordinator is given.
MaxConnect == 2

\* ------------------------------------------------------------ generic helpers

RECURSIVE Flatten(_)
\* Vec<Vec<u8>>::concat(): the buffers one after the other.
Flatten(seqs) ==
    IF seqs = <<>> THEN <<>> ELSE Head(seqs) \o Flatten(Tail(seqs))

\* All sequences over S of length 1..n.
SeqsUpTo(S, n) == UNION {[1..k -> S] : k \in 1..n}

IsPrefix(s, t) == Len(s) <= Len(t) /\ SubSeq(t, 1, Len(s)) = s

\* ------------------------------------------------------------------ sources

\* The characters a source_ids path segment is made of.
PathChars == {"a", "b", "c", ","}
Paths == SeqsUpTo(PathChars, MaxPathLen)
Zooms == 0..MaxZ

\* DataFormat::content_type of the two formats of the configured sources.
content_type(fmt) ==
    IF fmt = "Mvt" THEN "application/x-protobuf" ELSE "image/png"

\* A configured source: "a" and "b" are vector sources, "c" is a raster one;
\* "b" has minzoom 1 and "c" has maxzoom 0.  ver tells apart the copies that
\* successive Sources maps hold.
SourceIds == {<<"a">>, <<"b">>, <<"c">>}
SourceFmt(id) == IF id = <<"c">> THEN "Png" ELSE "Mvt"
SourceZooms(id) ==
    IF id = <<"a">> THEN Zooms
    ELSE IF id = <<"b">> THEN Zooms \ {0}
    ELSE {0}

\* The Sources map (id -> Source) of configuration version v.
SourcesMap(v) ==
    [id \in SourceIds |->
        [id |-> id, fmt |-> SourceFmt(id), zooms |-> SourceZooms(id), ver |-> v]]

\* The versions of the maps the RefreshSources messages carry: the k-th message
\* carries the map of version k.
RefreshVersions == 1..MaxRefresh

\* Source::is_valid_zoom
is_valid_zoom(src, z) == z \in src.zooms

\* What Source::get_tile of src may return on success: an empty tile, or one
\* byte that names the source object that produced it.
TileData(src) == {<<>>, <<[id |-> src.id, ver |-> src.ver]>>}

\* ------------------------------------------------------------- get_sources

\* str::split(','), on a string of characters.
RECURSIVE split_acc(_, _, _)
split_acc(s, cur, acc) ==
    IF s = <<>> THEN Append(acc, cur)
    ELSE IF Head(s) = "," THEN split_acc(Tail(s), <<>>, Append(acc, cur))
    ELSE split_acc(Tail(s), Append(cur, Head(s)), acc)

split(s) == split_acc(s, <<>>, <<>>)

Ok(sources, format) == [ok |-> TRUE, sources |-> sources, format |-> format]
Err(status, msg) == [ok |-> FALSE, status |-> status, msg |-> msg]

\* Mutant of SkipSource: the zoom filter is left out.
SkipSourceNever(src, zoom) == FALSE

\* get_sources: whether the loop skips src (the zoom is given and not valid).
SkipSource(src, zoom) == zoom # None /\ ~is_valid_zoom(src, zoom[1])

\* Mutant of FormatMismatch: the format of a later source is not compared.
FormatMismatchNever(format, src_fmt) == FALSE

\* get_sources: whether src_fmt differs from the format set by an earlier source.
FormatMismatch(format, src_fmt) == format # None /\ format[1] # src_fmt

\* The loop of get_sources over the ids still to visit, then its last two lines.
RECURSIVE get_sources_loop(_, _, _, _, _)
get_sources_loop(sources_map, ids, zoom, sources, format) ==
    IF ids = <<>> THEN
        IF format = None THEN Err(404, <<"No valid sources found">>)
        ELSE Ok(sources, format[1])
    ELSE
        LET id == Head(ids) IN
        IF id \notin DOMAIN sources_map
        THEN Err(404, <<"Source ", id, " does not exist">>)
        ELSE
            LET src == sources_map[id] IN
            IF SkipSource(src, zoom)
            THEN get_sources_loop(sources_map, Tail(ids), zoom, sources, format)
            ELSE IF FormatMismatch(format, src.fmt)
            THEN Err(404, <<"Cannot merge sources with ", format[1],
                            " with ", src.fmt>>)
            ELSE get_sources_loop(sources_map, Tail(ids), zoom,
                                  Append(sources, src), Some(src.fmt))

\* AppState::get_sources(source_ids, zoom)
get_sources(sources_map, source_ids, zoom) ==
    get_sources_loop(sources_map, split(source_ids), zoom, <<>>, None)

\* ------------------------------------------------------------------- state

Workers == {"w1", "w2"}

VARIABLES
    workers,       \* CoordinatorActor.workers: the registered worker handles
    alive,         \* alive[w]: worker w's actor is running (its mailbox is open)
    mailbox,       \* mailbox[w]: the Sources maps sent to w and not yet handled
    state,         \* state[w]: the Sources map of w's AppState
    req,           \* the tile request in flight, or its response
    installed,     \* history: installed[w] is every map w's AppState has held
    sent,          \* history: sent[w] is the last map broadcast to w, if any
    nConnect,      \* history: Connect messages handled
    nRefresh,      \* history: RefreshSources messages handled
    sridCall,      \* a call of calc_srid or merge_table_info: arguments, result
    tjCall,        \* a call of merge_tilejson: arguments, result
    sqlCall        \* a call of table_to_query: arguments, result

vars == <<workers, alive, mailbox, state, req, installed, sent, nConnect,
          nRefresh, sridCall, tjCall, sqlCall>>

\* The server's variables, and those of the calls of the pure functions.
serverVars == <<workers, alive, mailbox, state, req, installed, sent, nConnect,
                nRefresh>>
callVars == <<sridCall, tjCall, sqlCall>>

coordVars == <<workers, alive, mailbox, installed, sent, nConnect, nRefresh,
               sridCall, tjCall, sqlCall>>

\* No response yet.
NoResponse == [status |-> 0, content_type |-> None, body |-> <<>>]

\* No request in flight.
IdleReq ==
    [pc |-> "idle", worker |-> "w1", source_ids |-> <<>>, z |-> 0,
     gs |-> [ok |-> FALSE, status |-> 0, msg |-> <<>>], sources |-> <<>>,
     format |-> "", results |-> <<>>, log |-> <<>>, epoch |-> 1,
     sentAtStart |-> None, response |-> NoResponse]

NoCall == [pc |-> "none"]

\* The server after construction: no worker registered, every worker holding
\* the Sources map the server was started with.
ServerInit ==
    /\ workers = <<>>
    /\ alive = [w \in Workers |-> TRUE]
    /\ mailbox = [w \in Workers |-> <<>>]
    /\ state = [w \in Workers |-> SourcesMap(0)]
    /\ req = IdleReq
    /\ installed = [w \in Workers |-> <<SourcesMap(0)>>]
    /\ sent = [w \in Workers |-> None]
    /\ nConnect = 0
    /\ nRefresh = 0

Init ==
    /\ ServerInit
    /\ sridCall = NoCall
    /\ tjCall = NoCall
    /\ sqlCall = NoCall

\* ------------------------------------------------------------ tile handler

\* Mutant of JoinedTiles: the buffers in the order the calls completed.
JoinedTilesByCompletion(r) == [k \in 1..Len(r.log) |-> r.log[k].bytes]

\* try_join_all(...).await: the Ok values in the order of the futures given.
JoinedTiles(r) == [i \in 1..Len(r.results) |-> r.results[i][1]]

\* Mutant of TileResponse: an empty tile is answered 200 as well.
TileResponseAlwaysOk(tile, format) ==
    [status |-> 200, content_type |-> Some(content_type(format)), body |-> tile]

\* get_tile: the response for the concatenated tile.
TileResponse(tile, format) ==
    IF Len(tile) = 0
    THEN [status |-> 204, content_type |-> Some(content_type(format)),
          body |-> <<>>]
    ELSE [status |-> 200, content_type |-> Some(content_type(format)),
          body |-> tile]

\* An actix error turned into a response.
ErrorResponse(status, msg) ==
    [status |-> status, content_type |-> None, body |-> msg]

\* Mutant of FetchSource: the source is looked up again in the worker's state
\* when the call runs.
FetchSourceLive(r, i) == state[r.worker][r.sources[i].id]

\* get_tile: the source the i-th get_tile call runs on, a reference taken by
\* get_sources from the AppState the handler was given.
FetchSource(r, i) == r.sources[i]

\* The handler is entered on worker w with the path's source_ids and z; it runs
\* get_sources on the worker's AppState and either answers the error or launches
\* one get_tile per included source.
StartRequest(w, source_ids, z) ==
    /\ req.pc = "idle"
    /\ alive[w]
    /\ LET gs == get_sources(state[w], source_ids, Some(z)) IN
        req' = [pc |-> IF gs.ok THEN "fetching" ELSE "done",
                worker |-> w, source_ids |-> source_ids, z |-> z, gs |-> gs,
                sources |-> IF gs.ok THEN gs.sources ELSE <<>>,
                format |-> IF gs.ok THEN gs.format ELSE "",
                results |-> IF gs.ok
                            THEN [i \in 1..Len(gs.sources) |-> None]
                            ELSE <<>>,
                log |-> <<>>, epoch |-> Len(installed[w]),
                sentAtStart |-> sent[w],
                response |-> IF gs.ok THEN NoResponse
                             ELSE ErrorResponse(gs.status, gs.msg)]
    /\ UNCHANGED <<state, coordVars>>

\* The i-th get_tile call completes with a tile.
FetchOk(i) ==
    /\ req.pc = "fetching"
    /\ i \in 1..Len(req.sources)
    /\ req.results[i] = None
    /\ \E bytes \in TileData(FetchSource(req, i)) :
        req' = [req EXCEPT !.results[i] = Some(bytes),
                           !.log = Append(@, [idx |-> i,
                                              src |-> FetchSource(req, i),
                                              bytes |-> bytes,
                                              at |-> Len(installed[req.worker])])]
    /\ UNCHANGED <<state, coordVars>>

\* The i-th get_tile call fails: try_join_all resolves to the error at once and
\* map_internal_error makes it a 500.
FetchErr(i) ==
    /\ req.pc = "fetching"
    /\ i \in 1..Len(req.sources)
    /\ req.results[i] = None
    /\ req' = [req EXCEPT !.pc = "done",
                          !.response = ErrorResponse(500,
                              <<"get_tile failed: ", req.sources[i].id>>)]
    /\ UNCHANGED <<state, coordVars>>

\* Every call has completed: concatenate and answer.
Finish ==
    /\ req.pc = "fetching"
    /\ \A i \in 1..Len(req.sources) : req.results[i] # None
    /\ req' = [req EXCEPT !.pc = "done",
                          !.response = TileResponse(Flatten(JoinedTiles(req)),
                                                    req.format)]
    /\ UNCHANGED <<state, coordVars>>

\* The response has been written; the worker takes the next request.
NextRequest ==
    /\ req.pc = "done"
    /\ req' = IdleReq
    /\ UNCHANGED <<state, coordVars>>

NextTile ==
    \/ \E source_ids \in Paths, z \in Zooms : StartRequest("w1", source_ids, z)
    \/ \E i \in 1..MaxPathLen : FetchOk(i)
    \/ \E i \in 1..MaxPathLen : FetchErr(i)
    \/ Finish
    \/ NextRequest

\* Tile requests against one worker whose Sources never change.
SpecTile == Init /\ [][NextTile]_vars

\* ------------------------------------------------------ refresh coordinator

\* Addr::do_send(msg): the message is queued whatever the mailbox holds, and is
\* dropped without an error when the mailbox is closed.
do_send(mb, w, msg) ==
    IF alive[w] THEN [mb EXCEPT ![w] = Append(@, msg)] ELSE mb

\* Mutant of Broadcast: a send to a dead handle ends the loop.
RECURSIVE BroadcastStopAtDead(_, _, _)
BroadcastStopAtDead(ws, mb, msg) ==
    IF ws = <<>> \/ ~alive[Head(ws)] THEN mb
    ELSE BroadcastStopAtDead(Tail(ws), do_send(mb, Head(ws), msg), msg)

\* Handler<RefreshSources> for CoordinatorActor: the loop over self.workers.
RECURSIVE Broadcast(_, _, _)
Broadcast(ws, mb, msg) ==
    IF ws = <<>> THEN mb
    ELSE Broadcast(Tail(ws), do_send(mb, Head(ws), msg), msg)

\* Handler<Connect> for CoordinatorActor
Connect(w) ==
    /\ nConnect < MaxConnect
    /\ workers' = Append(workers, w)
    /\ nConnect' = nConnect + 1
    /\ UNCHANGED <<alive, mailbox, state, req, installed, sent, nRefresh>>
    /\ UNCHANGED callVars

\* Handler<RefreshSources> for CoordinatorActor, given the map of version v.
CoordRefresh(v) ==
    /\ nRefresh < MaxRefresh
    /\ v = nRefresh + 1
    /\ mailbox' = Broadcast(workers, mailbox, SourcesMap(v))
    /\ sent' = [w \in Workers |->
                   IF \E i \in 1..Len(workers) : workers[i] = w
                   THEN Some(SourcesMap(v)) ELSE sent[w]]
    /\ nRefresh' = nRefresh + 1
    /\ UNCHANGED <<workers, alive, state, req, installed, nConnect>>
    /\ UNCHANGED callVars

\* Handler<RefreshSources> for WorkerActor: the worker takes the next message of
\* its mailbox and installs the map as its AppState's sources.
WorkerInstall(w) ==
    /\ alive[w]
    /\ mailbox[w] # <<>>
    /\ state' = [state EXCEPT ![w] = Head(mailbox[w])]
    /\ mailbox' = [mailbox EXCEPT ![w] = Tail(@)]
    /\ installed' = [installed EXCEPT ![w] = Append(@, Head(mailbox[w]))]
    /\ UNCHANGED <<workers, alive, req, sent, nConnect, nRefresh>>
    /\ UNCHANGED callVars

\* A worker's actor stops: its mailbox is closed and what it held is lost.
WorkerStop(w) ==
    /\ alive[w]
    /\ alive' = [alive EXCEPT ![w] = FALSE]
    /\ mailbox' = [mailbox EXCEPT ![w] = <<>>]
    /\ UNCHANGED <<workers, state, req, installed, sent, nConnect, nRefresh>>
    /\ UNCHANGED callVars

\* The requests sent while the sources are refreshed.
RefreshPaths == {<<"a", ",", "b">>}

NextRefresh ==
    \/ \E w \in Workers : Connect(w)
    \/ \E v \in RefreshVersions : CoordRefresh(v)
    \/ \E w \in Workers : WorkerInstall(w)
    \/ \E w \in Workers : WorkerStop(w)
    \/ \E w \in Workers, source_ids \in RefreshPaths :
           StartRequest(w, source_ids, MaxZ)
    \/ \E i \in 1..MaxPathLen : FetchOk(i)
    \/ \E i \in 1..MaxPathLen : FetchErr(i)
    \/ Finish
    \/ NextRequest

\* Workers serving tile requests while the coordinator registers workers and
\* broadcasts new Sources maps.
SpecRefresh == Init /\ [][NextRefresh]_vars

\* ------------------------------------------------- claims on the tile handler

\* The sources of the map the request began under, for each id of source_ids.
AllIdsExist(r) == \A i \in 1..Len(split(r.source_ids)) :
                      split(r.source_ids)[i] \in SourceIds

\* The sources a request includes, said directly: those named in source_ids, in
\* that order and with duplicates, that are valid at the zoom asked for.
Included(r) ==
    LET ids == split(r.source_ids)
        named == [i \in 1..Len(ids) |-> installed[r.worker][r.epoch][ids[i]]]
        valid(s) == r.z \in s.zooms
    IN SelectSeq(named, valid)

\* What the get_tile call launched for the i-th included source returned.
Returned(r, i) == (CHOOSE k \in 1..Len(r.log) : r.log[k].idx = i)

\* Every get_tile call of the request succeeded and the response is written.
AllSucceeded(r) ==
    r.pc = "done" /\ r.gs.ok /\ Len(r.log) = Len(r.sources)

ReturnedBody(r) ==
    Flatten([i \in 1..Len(r.sources) |-> r.log[Returned(r, i)].bytes])

\* C1: when every get_tile call of a tile request succeeds, the body is the
\* tiles of the included sources s1..sn concatenated in the order of source_ids,
\* whatever the order in which the calls completed.
C1_BodyInSourceOrder ==
    AllSucceeded(req) =>
        /\ Len(req.sources) = Len(Included(req))
        /\ \A i \in 1..Len(req.sources) :
               req.log[Returned(req, i)].src = Included(req)[i]
        /\ req.response.body = ReturnedBody(req)

\* C1 witness: three sources answered in the reverse order, the first and the
\* last with different tiles.
C1_Witness ==
    /\ AllSucceeded(req)
    /\ Len(req.sources) = 3
    /\ req.log[1].idx = 3
    /\ req.log[2].idx = 2
    /\ req.log[3].idx = 1
    /\ req.log[1].bytes # <<>>
    /\ req.log[3].bytes # <<>>
    /\ req.log[1].bytes # req.log[3].bytes
    /\ req.response.status = 200
    /\ req.response.body = req.log[3].bytes \o req.log[2].bytes \o req.log[1].bytes

UniformFormat(srcs) == \A i, j \in 1..Len(srcs) : srcs[i].fmt = srcs[j].fmt

\* C3: with every id existing, a source not valid at the zoom is left out of the
\* list get_sources returns and causes no error; with every source left out the
\* result is 404 "No valid sources found".
C3_ZoomFiltering ==
    (req.pc # "idle" /\ AllIdsExist(req)) =>
        /\ Included(req) = <<>> =>
               /\ ~req.gs.ok
               /\ req.gs.status = 404
               /\ req.gs.msg = <<"No valid sources found">>
               /\ req.response.status = 404
               /\ req.response.body = <<"No valid sources found">>
        /\ (Included(req) # <<>> /\ UniformFormat(Included(req))) =>
               req.gs.ok /\ req.gs.sources = Included(req)
        /\ req.gs.ok => req.gs.sources = Included(req)

\* C3 witness: two ids named, one of them skipped, the other returned.
C3_Witness ==
    /\ req.pc # "idle"
    /\ AllIdsExist(req)
    /\ Len(split(req.source_ids)) = 2
    /\ req.gs.ok
    /\ Len(req.gs.sources) = 1
    /\ req.gs.sources[1].id = split(req.source_ids)[2]

NamedFormats(r) ==
    {SourceFmt(split(r.source_ids)[i]) : i \in 1..Len(split(r.source_ids))}

\* Whether the result of get_sources is the refusal to merge formats.
IsFormatError(gs) ==
    ~gs.ok /\ gs.status = 404 /\ gs.msg[1] = "Cannot merge sources with "

\* C4 as stated: a request naming existing sources of more than one format is
\* answered 404 "Cannot merge sources with A with B"; a request naming sources of
\* one format is not refused for their format.
C4_Original ==
    (req.pc # "idle" /\ AllIdsExist(req)) =>
        IF Cardinality(NamedFormats(req)) > 1
        THEN IsFormatError(req.gs)
        ELSE ~IsFormatError(req.gs)

\* The first included source whose format is not that of the first one.
FirstOther(srcs) ==
    srcs[CHOOSE i \in 1..Len(srcs) :
            /\ srcs[i].fmt # srcs[1].fmt
            /\ \A j \in 1..(i - 1) : srcs[j].fmt = srcs[1].fmt]

\* C4 (amended): with every id existing, a request whose included sources (those
\* the zoom filter keeps) have more than one format is answered 404 "Cannot merge
\* sources with A with B", A the format of the first included source and B the
\* first format that differs from it; a request whose included sources share one
\* format is accepted with that format.
C4_FormatUnification ==
    (req.pc # "idle" /\ AllIdsExist(req) /\ Included(req) # <<>>) =>
        IF UniformFormat(Included(req))
        THEN req.gs.ok /\ req.gs.format = Included(req)[1].fmt
        ELSE /\ ~req.gs.ok
             /\ req.gs.status = 404
             /\ req.gs.msg = <<"Cannot merge sources with ",
                               Included(req)[1].fmt, " with ",
                               FirstOther(Included(req)).fmt>>
             /\ req.response.status = 404
             /\ req.response.body = req.gs.msg

\* C4 witness: a request refused for mixing a vector and a raster source.
C4_Witness ==
    /\ req.pc = "done"
    /\ AllIdsExist(req)
    /\ ~req.gs.ok
    /\ req.gs.msg = <<"Cannot merge sources with ", "Mvt", " with ", "Png">>

\* C8: when get_sources succeeds with format F and every get_tile call succeeds,
\* the response is 204 with F's content type if the concatenation is empty and
\* 200 with F's content type and the concatenation as body otherwise.
C8_EmptyBodyIs204 ==
    AllSucceeded(req) =>
        /\ req.response.status = (IF ReturnedBody(req) = <<>> THEN 204 ELSE 200)
        /\ req.response.content_type = Some(content_type(req.gs.format))
        /\ req.response.body = ReturnedBody(req)

\* C8 witness: two sources, both with an empty tile, answered 204.
C8_Witness ==
    /\ AllSucceeded(req)
    /\ Len(req.sources) = 2
    /\ ReturnedBody(req) = <<>>
    /\ req.response.status = 204
    /\ req.response.content_type = Some("application/x-protobuf")

\* ------------------------------------------------------ claims on the refresh

\* The request is served by the sources of map m only.
ServedFrom(r, m) ==
    /\ \A i \in 1..Len(r.sources) : r.sources[i] = m[r.sources[i].id]
    /\ \A k \in 1..Len(r.log) : r.log[k].src = m[r.log[k].src.id]

\* C2 as stated: once the coordinator has broadcast a map to a worker, every
\* request that begins on the worker is served from that map; and no request is
\* served from a mix of maps.
C2_Original ==
    req.pc # "idle" =>
        /\ req.sentAtStart # None => ServedFrom(req, req.sentAtStart[1])
        /\ \E v \in {0} \cup RefreshVersions : ServedFrom(req, SourcesMap(v))

\* C2 (amended): every request is served entirely from the map its worker had
\* installed last when the request began, also when the worker installs another
\* map before the request ends; so a request that begins after the worker has
\* installed a broadcast map is served from that map, and one that began before
\* is served from the old one.
C2_ServedFromMapAtStart ==
    req.pc # "idle" =>
        /\ req.epoch <= Len(installed[req.worker])
        /\ ServedFrom(req, installed[req.worker][req.epoch])
        /\ \A k \in 1..Len(req.log) : req.log[k].at >= req.epoch

\* C2 witness: a request that began under the first map and whose second
\* get_tile call completed after the worker had installed another one.
C2_Witness ==
    /\ req.pc = "done"
    /\ req.response.status = 200
    /\ req.epoch = 1
    /\ Len(req.log) = 2
    /\ req.log[1].at = 1
    /\ req.log[2].at = 2
    /\ req.log[2].bytes # <<>>
    /\ state[req.worker] # SourcesMap(0)

\* How many times w is in the list ws.
Count(ws, w) == Cardinality({i \in 1..Len(ws) : ws[i] = w})

\* C10: the coordinator's list only grows; handling RefreshSources{sources}
\* queues one copy of sources, per registration, to every registered worker whose
\* mailbox is open, drops the copies for dead handles, changes nothing else, and
\* can always be done.
C10_FanOut ==
    /\ [](nRefresh < MaxRefresh => ENABLED CoordRefresh(nRefresh + 1))
    /\ [][/\ IsPrefix(workers, workers')
          /\ nRefresh' # nRefresh =>
                /\ workers' = workers
                /\ \E v \in RefreshVersions : \A w \in Workers :
                       mailbox'[w] = mailbox[w] \o
                           [k \in 1..(IF alive[w] THEN Count(workers, w) ELSE 0)
                               |-> SourcesMap(v)]]_vars

\* C10 witness: a broadcast to a dead worker registered first and a live one
\* registered after it; the dead one's copy is lost, the live one's is queued.
C10_Witness ==
    /\ workers = <<"w1", "w2">>
    /\ ~alive["w1"]
    /\ sent["w1"] # None
    /\ Len(installed["w1"]) = 1
    /\ alive["w2"]
    /\ Len(mailbox["w2"]) = 1
    /\ sent["w2"] = Some(mailbox["w2"][1])
    /\ nRefresh = 1

\* ---------------------------------------------------- SRID resolution, merge

\* Largest SRID of a table or of the configuration; -1 stands for the negative ones.
MaxSrid == 2
Srids == -1..MaxSrid

\* Mutant of calc_srid: a default SRID is used whenever the table has none.
calc_srid_default_first(table_id, new_id, src_srid, cfg_srid, default_srid) ==
    CASE src_srid = 0 /\ default_srid # None -> Some(default_srid[1])
      [] src_srid = 0 /\ cfg_srid = 0 /\ default_srid = None -> None
      [] src_srid = 0 -> Some(cfg_srid)
      [] cfg_srid = 0 -> Some(src_srid)
      [] src_srid # cfg_srid -> None
      [] OTHER -> Some(cfg_srid)

\* calc_srid: the arms of its match, tried in order.
calc_srid(table_id, new_id, src_srid, cfg_srid, default_srid) ==
    IF src_srid = 0 /\ cfg_srid = 0 /\ default_srid # None
    THEN Some(default_srid[1])
    ELSE IF src_srid = 0 /\ cfg_srid = 0 /\ default_srid = None THEN None
    ELSE IF src_srid = 0 THEN Some(cfg_srid)
    ELSE IF cfg_srid = 0 THEN Some(src_srid)
    ELSE IF src_srid # cfg_srid THEN None
    ELSE Some(cfg_srid)

\* TableInfo::format_id: schema.table.geometry_column
format_id(info) ==
    info.schema \o <<".">> \o info.table \o <<".">> \o info.geometry_column

\* A key without its case and its punctuation.
NormalizedKey(key) ==
    LET lower(c) == IF c = "I" THEN "i" ELSE IF c = "D" THEN "d" ELSE c
        letter(c) == c # "_"
    IN SelectSeq([i \in 1..Len(key) |-> lower(key[i])], letter)

\* normalize_key: the one key of map that is key up to case and punctuation;
\* none when no key or several keys are.
normalize_key(map, key) ==
    LET found == {k \in DOMAIN map : NormalizedKey(k) = NormalizedKey(key)}
    IN IF Cardinality(found) = 1 THEN Some(CHOOSE k \in found : TRUE) ELSE None

\* merge_table_info
merge_table_info(default_srid, new_id, cfg_inf, src_inf) ==
    LET table_id == format_id(src_inf)
        srid == calc_srid(table_id, new_id, src_inf.srid, cfg_inf.srid,
                          default_srid)
        names == DOMAIN cfg_inf.properties \cup
                 (IF cfg_inf.id_column # None THEN {cfg_inf.id_column[1]} ELSE {})
    IN  IF srid = None THEN None
        ELSE IF \E key \in names : normalize_key(src_inf.properties, key) = None
        THEN None
        ELSE Some([cfg_inf EXCEPT
                     !.schema = src_inf.schema,
                     !.table = src_inf.table,
                     !.geometry_column = src_inf.geometry_column,
                     !.srid = srid[1],
                     !.prop_mapping =
                         [key \in names |->
                             normalize_key(src_inf.properties, key)[1]]])

\* The defaults of extent, buffer and clip_geom.
DEFAULT_EXTENT == 4096
DEFAULT_BUFFER == 64
DEFAULT_CLIP_GEOM == TRUE

\* A TableInfo with the defaults get_table_sources fills in.
TableInfo(schema, table, geometry_column, srid, id_column, properties) ==
    [schema |-> schema, table |-> table, geometry_column |-> geometry_column,
     srid |-> srid, geometry_type |-> None, id_column |-> id_column,
     properties |-> properties, prop_mapping |-> <<>>,
     extent |-> Some(DEFAULT_EXTENT), buffer |-> Some(DEFAULT_BUFFER),
     clip_geom |-> Some(DEFAULT_CLIP_GEOM),
     bounds |-> None]

\* The columns of the table, as the database reports them (name -> type).
SrcProperties ==
    {[k \in keys |-> "int4"] :
        keys \in {{<<"i", "d">>},
                  {<<"i", "d">>, <<"I", "d">>},
                  {<<"i", "d">>, <<"n">>}}}

\* The properties and the id column a configuration asks for.
CfgProperties == {[k \in keys |-> "int4"] : keys \in {{}, {<<"n">>}}}
CfgIdColumns == {None, Some(<<"I", "D">>)}

SridInit ==
    /\ ServerInit
    /\ tjCall = NoCall
    /\ sqlCall = NoCall
    /\ \E src_srid \in Srids, cfg_srid \in Srids,
          default_srid \in {None} \cup {Some(d) : d \in Srids},
          id_column \in CfgIdColumns, cfg_props \in CfgProperties,
          src_props \in SrcProperties :
        sridCall = [pc |-> "call",
                    default_srid |-> default_srid,
                    new_id |-> <<"s">>,
                    cfg_inf |-> TableInfo(<<"p">>, <<"T">>, <<"g">>, cfg_srid,
                                          id_column, cfg_props),
                    src_inf |-> TableInfo(<<"p">>, <<"t">>, <<"g">>, src_srid,
                                          None, src_props),
                    result |-> None]

\* calc_srid is called on the table's and the configuration's SRID.
CallCalcSrid ==
    /\ sridCall.pc = "call"
    /\ sridCall' = [sridCall EXCEPT
           !.pc = "calc_srid",
           !.result = calc_srid(format_id(sridCall.src_inf), sridCall.new_id,
                                sridCall.src_inf.srid, sridCall.cfg_inf.srid,
                                sridCall.default_srid)]
    /\ UNCHANGED <<serverVars, tjCall, sqlCall>>

\* merge_table_info is called on the configuration and the table.
CallMergeTableInfo ==
    /\ sridCall.pc = "call"
    /\ sridCall' = [sridCall EXCEPT
           !.pc = "merge_table_info",
           !.result = merge_table_info(sridCall.default_srid, sridCall.new_id,
                                       sridCall.cfg_inf, sridCall.src_inf)]
    /\ UNCHANGED <<serverVars, tjCall, sqlCall>>

SridNext == CallCalcSrid \/ CallMergeTableInfo

\* calc_srid and merge_table_info on every input of the bounded sets.
SpecSrid == SridInit /\ [][SridNext]_vars

\* C5: for src and cfg each 0 or positive and a default absent or positive,
\* calc_srid gives the default when both are 0 and there is a default, none when
\* both are 0 and there is no default, cfg when only src is 0, src when only cfg
\* is 0, the common value when they are positive and equal, none when they are
\* positive and unequal.
C5_CalcSridTable ==
    LET src == sridCall.src_inf.srid
        cfg == sridCall.cfg_inf.srid
        def == sridCall.default_srid
        res == sridCall.result
    IN  (/\ sridCall.pc = "calc_srid"
         /\ src >= 0 /\ cfg >= 0
         /\ (def = None \/ def[1] > 0)) =>
            /\ (src = 0 /\ cfg = 0 /\ def # None) => res = def
            /\ (src = 0 /\ cfg = 0 /\ def = None) => res = None
            /\ (src = 0 /\ cfg > 0) => res = Some(cfg)
            /\ (src > 0 /\ cfg = 0) => res = Some(src)
            /\ (src > 0 /\ cfg > 0 /\ src = cfg) => res = Some(src)
            /\ (src > 0 /\ cfg > 0 /\ src # cfg) => res = None

\* C5 witness: a positive configured SRID kept although a default is given.
C5_Witness ==
    /\ sridCall.pc = "calc_srid"
    /\ sridCall.src_inf.srid = 0
    /\ sridCall.cfg_inf.srid = 2
    /\ sridCall.default_srid = Some(1)
    /\ sridCall.result = Some(2)

\* C6: every TableInfo merge_table_info returns has srid > 0.
C6_MergedSridPositive ==
    (sridCall.pc = "merge_table_info" /\ sridCall.result # None) =>
        sridCall.result[1].srid > 0

\* ---------------------------------------------------------- TileJSON merger

\* Most sources whose TileJSON is merged.
MaxTj == 2
\* Largest minzoom or maxzoom of a source's TileJSON.
MaxTjZoom == 1

Min(S) == CHOOSE x \in S : \A y \in S : x <= y
Max(S) == CHOOSE x \in S : \A y \in S : x >= y

Bounds(left, bottom, right, top) ==
    [left |-> left, bottom |-> bottom, right |-> right, top |-> top]

\* Add for tilejson::Bounds: the smallest box that holds both.
BoundsAdd(a, b) ==
    Bounds(Min({a.left, b.left}), Min({a.bottom, b.bottom}),
           Max({a.right, b.right}), Max({a.top, b.top}))

\* Mutant of merged_minzoom: an accumulator without minzoom stays without.
merged_minzoom_both(accum, tj) ==
    IF tj.minzoom # None /\ accum.minzoom # None
          /\ accum.minzoom[1] > tj.minzoom[1]
    THEN tj.minzoom ELSE accum.minzoom

\* merge_tilejson, the reduce closure: accum.minzoom after tj.
merged_minzoom(accum, tj) ==
    IF tj.minzoom # None
    THEN IF accum.minzoom # None
         THEN IF accum.minzoom[1] > tj.minzoom[1]
              THEN tj.minzoom ELSE accum.minzoom
         ELSE tj.minzoom
    ELSE accum.minzoom

\* merge_tilejson, the reduce closure: accum.maxzoom after tj.
merged_maxzoom(accum, tj) ==
    IF tj.maxzoom # None
    THEN IF accum.maxzoom # None
         THEN IF accum.maxzoom[1] < tj.maxzoom[1]
              THEN tj.maxzoom ELSE accum.maxzoom
         ELSE tj.maxzoom
    ELSE accum.maxzoom

\* merge_tilejson, the reduce closure: accum.bounds after tj.
merged_bounds(accum, tj) ==
    IF tj.bounds # None
    THEN IF accum.bounds # None
         THEN Some(BoundsAdd(accum.bounds[1], tj.bounds[1]))
         ELSE tj.bounds
    ELSE accum.bounds

\* Iterator::reduce over the TileJSON values left, from the accumulator.
RECURSIVE reduce_tilejson(_, _)
reduce_tilejson(accum, rest) ==
    IF rest = <<>> THEN accum
    ELSE reduce_tilejson(
             [accum EXCEPT !.minzoom = merged_minzoom(accum, Head(rest)),
                           !.maxzoom = merged_maxzoom(accum, Head(rest)),
                           !.bounds = merged_bounds(accum, Head(rest))],
             Tail(rest))

\* merge_tilejson(sources, tiles_url), on the sources' TileJSON values.
merge_tilejson(tilejsons, tiles_url) ==
    LET tilejson == reduce_tilejson(Head(tilejsons), Tail(tilejsons))
    IN [tilejson EXCEPT !.tiles = Append(@, tiles_url)]

\* The TileJSON values of the sources: each of minzoom, maxzoom and bounds is
\* absent or present; name tells the sources apart.
TjBounds == {Bounds(-2, -1, 1, 1), Bounds(-1, -2, 2, 1)}
TjZooms == {None} \cup {Some(z) : z \in 0..MaxTjZoom}
TileJsons ==
    [minzoom : TjZooms, maxzoom : TjZooms,
     bounds : {None} \cup {Some(b) : b \in TjBounds},
     tiles : {<<>>}]

TjInit ==
    /\ ServerInit
    /\ sridCall = NoCall
    /\ sqlCall = NoCall
    /\ \E tilejsons \in SeqsUpTo(TileJsons, MaxTj) :
        tjCall = [pc |-> "call", tilejsons |-> tilejsons,
                  tiles_url |-> "http://localhost/a/{z}/{x}/{y}",
                  result |-> None]

\* merge_tilejson is called on the sources of a /{source_ids} request.
CallMergeTilejson ==
    /\ tjCall.pc = "call"
    /\ tjCall' = [tjCall EXCEPT
           !.pc = "merge_tilejson",
           !.result = Some(merge_tilejson(tjCall.tilejsons, tjCall.tiles_url))]
    /\ UNCHANGED <<serverVars, sridCall, sqlCall>>

TjNext == CallMergeTilejson

\* merge_tilejson on every list of the bounded sets.
SpecTilejson == TjInit /\ [][TjNext]_vars

\* The values of field f present in the list.
Present(tilejsons, f) ==
    {tilejsons[i][f][1] : i \in {j \in 1..Len(tilejsons) : tilejsons[j][f] # None}}

\* C7: merge_tilejson returns the least present minzoom, the greatest present
\* maxzoom and the box spanning all present bounds; an absent value, also in the
\* first source, changes nothing, and a field is absent in the result only when
\* it is absent in every source.
C7_TilejsonMerge ==
    tjCall.pc = "merge_tilejson" =>
        LET in == tjCall.tilejsons
            out == tjCall.result[1]
            mins == Present(in, "minzoom")
            maxs == Present(in, "maxzoom")
            boxes == Present(in, "bounds")
        IN  /\ out.minzoom = IF mins = {} THEN None ELSE Some(Min(mins))
            /\ out.maxzoom = IF maxs = {} THEN None ELSE Some(Max(maxs))
            /\ out.bounds =
                 IF boxes = {} THEN None
                 ELSE Some(Bounds(Min({b.left : b \in boxes}),
                                  Min({b.bottom : b \in boxes}),
                                  Max({b.right : b \in boxes}),
                                  Max({b.top : b \in boxes})))

\* C7 witness: the first source has no minzoom and the second has one; their
\* bounds differ and the merged bounds are wider than both.
C7_Witness ==
    /\ tjCall.pc = "merge_tilejson"
    /\ Len(tjCall.tilejsons) = 2
    /\ tjCall.tilejsons[1].minzoom = None
    /\ tjCall.tilejsons[2].minzoom = Some(1)
    /\ tjCall.result[1].minzoom = Some(1)
    /\ tjCall.tilejsons[1].maxzoom = Some(0)
    /\ tjCall.tilejsons[2].maxzoom = Some(1)
    /\ tjCall.tilejsons[1].bounds # None
    /\ tjCall.tilejsons[2].bounds # None
    /\ tjCall.result[1].bounds \notin
           {tjCall.tilejsons[1].bounds, tjCall.tilejsons[2].bounds}

\* -------------------------------------------------------- SQL template builder

\* Most properties of a table source.
MaxProps == 1

DigitChars == {"0", "1", "2", "3", "4", "5", "6", "7", "8", "9"}
DigitChar(d) == <<"0", "1", "2", "3", "4", "5", "6", "7", "8", "9">>[d + 1]

\* Display of a non-negative integer: its decimal digits.
RECURSIVE Digits(_)
Digits(n) ==
    IF n < 10 THEN <<DigitChar(n)>>
    ELSE Append(Digits(n \div 10), DigitChar(n % 10))

\* Display of an i32.
FormatInt(n) == IF n < 0 THEN <<"-">> \o Digits(0 - n) ELSE Digits(n)

\* The decimal digits of rem / den after the point, rem < den, until the division
\* ends (it does for the extents used, which are powers of two).
RECURSIVE FractionDigits(_, _)
FractionDigits(rem, den) ==
    IF rem = 0 THEN <<>>
    ELSE <<DigitChar((rem * 10) \div den)>>
             \o FractionDigits((rem * 10) % den, den)

\* Display of the f64 buffer / extent, buffer > 0.
FormatMargin(buffer, extent) ==
    IF extent = 0 THEN <<"inf">>
    ELSE Digits(buffer \div extent) \o
         (IF buffer % extent = 0 THEN <<>>
          ELSE <<".">> \o FractionDigits(buffer % extent, extent))

\* str::replace of one character by two.
RECURSIVE Doubled(_, _)
Doubled(str, chars) ==
    IF str = <<>> THEN <<>>
    ELSE (IF Head(str) \in chars THEN <<Head(str), Head(str)>> ELSE <<Head(str)>>)
             \o Doubled(Tail(str), chars)

\* postgres_protocol::escape::escape_identifier
escape_identifier(str) == <<"\"">> \o Doubled(str, {"\""}) \o <<"\"">>

\* postgres_protocol::escape::escape_literal
escape_literal(str) ==
    IF \E i \in 1..Len(str) : str[i] = "\\"
    THEN <<" ", "E", "'">> \o Doubled(str, {"'", "\\"}) \o <<"'">>
    ELSE <<"'">> \o Doubled(str, {"'"}) \o <<"'">>

\* escape_with_alias
escape_with_alias(mapping, field) ==
    LET column == IF field \in DOMAIN mapping THEN mapping[field] ELSE field
    IN  IF field # column
        THEN <<", ">> \o escape_identifier(column) \o <<" AS ">>
                 \o escape_identifier(field)
        ELSE <<", ">> \o escape_identifier(column)

\* ST_TileEnvelope($1::integer, $2::integer, $3::integer, with what follows.
TileEnvelope(rest) ==
    <<"ST_TileEnvelope(", "$", "1", "::integer, ", "$", "2", "::integer, ",
      "$", "3", "::integer">> \o rest

\* Mutant of bbox_search: the ST_Expand of the source's comment, which names $1
\* once more.
bbox_search_expand(buffer, extent, supports_tile_margin) ==
    IF buffer = 0 THEN TileEnvelope(<<")">>)
    ELSE IF supports_tile_margin
    THEN TileEnvelope(<<", margin => ">> \o FormatMargin(buffer, extent) \o <<")">>)
    ELSE <<"ST_Expand(">> \o TileEnvelope(<<")">>) \o <<", ">>
             \o FormatMargin(buffer, extent) \o <<"/2^", "$", "1", "::integer)">>

\* table_to_query: bbox_search
bbox_search(buffer, extent, supports_tile_margin) ==
    IF buffer = 0 THEN TileEnvelope(<<")">>)
    ELSE IF supports_tile_margin
    THEN TileEnvelope(<<", margin => ">> \o FormatMargin(buffer, extent) \o <<")">>)
    ELSE TileEnvelope(<<")">>)

unwrap_or(opt, default) == IF opt = None THEN default ELSE opt[1]

\* The runs of white space of the query template.
WhiteSpace == {" ", "\n", "\n  ", "\n    ", "\n        "}

\* str::trim, on a string whose runs of white space are elements of their own.
RECURSIVE trim_start(_)
trim_start(str) ==
    IF str # <<>> /\ Head(str) \in WhiteSpace THEN trim_start(Tail(str)) ELSE str

RECURSIVE trim_end(_)
trim_end(str) ==
    IF str # <<>> /\ str[Len(str)] \in WhiteSpace
    THEN trim_end(SubSeq(str, 1, Len(str) - 1)) ELSE str

trim(str) == trim_end(trim_start(str))

\* table_to_query: the properties, in the order keys gives them.
RECURSIVE properties_sql(_, _)
properties_sql(keys, prop_mapping) ==
    IF keys = <<>> THEN <<>>
    ELSE escape_with_alias(prop_mapping, Head(keys))
             \o properties_sql(Tail(keys), prop_mapping)

\* table_to_query: the query string, for the properties in the order keys.
query_sql(info, keys, supports_tile_margin) ==
    LET properties == properties_sql(keys, info.prop_mapping)
        id_name == IF info.id_column # None
                   THEN <<", ">> \o escape_literal(info.id_column[1]) ELSE <<>>
        id_field == IF info.id_column # None
                    THEN escape_with_alias(info.prop_mapping, info.id_column[1])
                    ELSE <<>>
        extent == unwrap_or(info.extent, DEFAULT_EXTENT)
        buffer == unwrap_or(info.buffer, DEFAULT_BUFFER)
        clip_geom == IF unwrap_or(info.clip_geom, DEFAULT_CLIP_GEOM)
                     THEN <<"true">> ELSE <<"false">>
        geometry_column == escape_identifier(info.geometry_column)
    IN trim(
        <<"\n", "SELECT", "\n  ", "ST_AsMVT(tile, ">>
        \o escape_literal(format_id(info)) \o <<", ">> \o Digits(extent)
        \o <<", ", "'", "geom", "'">> \o id_name
        \o <<")", "\n", "FROM (", "\n  ", "SELECT", "\n    ", "ST_AsMVTGeom(",
             "\n        ", "ST_Transform(ST_CurveToLine(">>
        \o geometry_column \o <<"), 3857),", "\n        ">>
        \o TileEnvelope(<<"),", "\n        ">>)
        \o Digits(extent) \o <<", ">> \o Digits(buffer) \o <<", ">> \o clip_geom
        \o <<"\n    ", ") AS geom", "\n    ">>
        \o id_field \o properties
        \o <<"\n  ", "FROM", "\n    ">>
        \o escape_identifier(info.schema) \o <<".">>
        \o escape_identifier(info.table)
        \o <<"\n  ", "WHERE", "\n    ">>
        \o geometry_column \o <<" && ST_Transform(">>
        \o bbox_search(buffer, extent, supports_tile_margin)
        \o <<", ">> \o FormatInt(info.srid) \o <<")", "\n", ") AS tile", "\n">>)

\* table_to_query(id, info, pool).  db is what the bounds query meets: a failure
\* to get a connection, or the bounds it computes, if any.
table_to_query(id, info, keys, supports_tile_margin, db) ==
    IF info.bounds = None /\ db = "pool error"
    THEN [ok |-> FALSE]
    ELSE [ok |-> TRUE, id |-> id,
          sql |-> [query |-> query_sql(info, keys, supports_tile_margin),
                   use_url_query |-> FALSE, id |-> format_id(info)],
          info |-> IF info.bounds = None THEN [info EXCEPT !.bounds = db]
                   ELSE info]

\* The names of schemas, columns and properties: plain, holding a placeholder,
\* holding a double quote, holding a backslash and a single quote.
SqlNames == {<<"a">>, <<"$", "1">>, <<"q", "\"", "$", "4">>, <<"\\", "'">>}

\* The orders in which a HashMap may give the keys S.
Orderings(S) ==
    {keys \in [1..Cardinality(S) -> S] : {keys[i] : i \in DOMAIN keys} = S}

SqlInit ==
    /\ ServerInit
    /\ sridCall = NoCall
    /\ tjCall = NoCall
    /\ \E schema \in SqlNames, geometry_column \in {<<"g">>, <<"\\", "'">>},
          id_column \in {None} \cup {Some(n) : n \in SqlNames},
          props \in {S \in SUBSET SqlNames : Cardinality(S) <= MaxProps},
          mapped \in BOOLEAN,
          buffer \in {None, Some(0), Some(64)},
          extent \in {None, Some(512)},
          bounds \in {None, Some(Bounds(0, 0, 1, 1))},
          supports_tile_margin \in BOOLEAN :
        sqlCall =
            [pc |-> "call",
             id |-> <<"s">>,
             info |-> [TableInfo(schema, <<"t">>, geometry_column, 4326,
                                 id_column,
                                 [k \in props |-> "text"])
                         EXCEPT !.buffer = buffer, !.extent = extent,
                                !.bounds = bounds,
                                !.prop_mapping =
                                    [k \in props \cup
                                        {id_column[i] : i \in DOMAIN id_column}
                                      |-> IF mapped THEN <<"c", "$", "2">> ELSE k]],
             supports_tile_margin |-> supports_tile_margin,
             result |-> None]

\* table_to_query is called on a merged TableInfo.
CallTableToQuery ==
    /\ sqlCall.pc = "call"
    /\ \E keys \in Orderings(DOMAIN sqlCall.info.properties),
          db \in {"pool error", None, Some(Bounds(0, 0, 2, 2))} :
        sqlCall' = [sqlCall EXCEPT
            !.pc = "table_to_query",
            !.result = Some(table_to_query(sqlCall.id, sqlCall.info, keys,
                                           sqlCall.supports_tile_margin, db))]
    /\ UNCHANGED <<serverVars, sridCall, tjCall>>

SqlNext == CallTableToQuery

\* table_to_query on every TableInfo of the bounded sets.
SpecSql == SqlInit /\ [][SqlNext]_vars

\* The places of str where the placeholder $d stands: a "$", the digit d, and no
\* digit after it.
Placeholders(str, d) ==
    {i \in 1..(Len(str) - 1) :
        /\ str[i] = "$"
        /\ str[i + 1] = d
        /\ (i + 2 <= Len(str) => str[i + 2] \notin DigitChars)}

\* The places of str where any placeholder stands.
AnyPlaceholder(str) ==
    {i \in 1..(Len(str) - 1) : str[i] = "$" /\ str[i + 1] \in DigitChars}

\* Reading character c in mode "code", "identifier" ("...") or "literal" ('...'):
\* the mode after it.
QuoteMode(mode, c) ==
    IF mode = "code"
    THEN IF c = "\"" THEN "identifier" ELSE IF c = "'" THEN "literal" ELSE "code"
    ELSE IF mode = "identifier" THEN IF c = "\"" THEN "code" ELSE mode
    ELSE IF c = "'" THEN "code" ELSE mode

\* The mode after reading str[i..hi] from mode.
RECURSIVE ModeAfter(_, _, _, _)
ModeAfter(str, i, hi, mode) ==
    IF i > hi THEN mode
    ELSE IF QuoteMode(mode, str[i]) = "identifier"
    THEN ModeAfter(str, i + 1, hi, "identifier")
    ELSE IF QuoteMode(mode, str[i]) = "literal"
    THEN ModeAfter(str, i + 1, hi, "literal")
    ELSE ModeAfter(str, i + 1, hi, "code")

\* The places of str[i..hi] outside quoted identifiers and string literals,
\* str[i] being read in mode.
RECURSIVE UnquotedIn(_, _, _, _)
UnquotedIn(str, i, hi, mode) ==
    IF i > hi THEN {}
    ELSE IF QuoteMode(mode, str[i]) = "identifier"
    THEN UnquotedIn(str, i + 1, hi, "identifier")
    ELSE IF QuoteMode(mode, str[i]) = "literal"
    THEN UnquotedIn(str, i + 1, hi, "literal")
    ELSE (IF mode = "code" THEN {i} ELSE {}) \cup UnquotedIn(str, i + 1, hi, "code")

\* The same from place lo to the end of str, read twenty places at a time.
RECURSIVE UnquotedFrom(_, _, _)
UnquotedFrom(str, lo, mode) ==
    IF lo > Len(str) THEN {}
    ELSE LET hi == IF lo + 19 < Len(str) THEN lo + 19 ELSE Len(str)
         IN  UnquotedIn(str, lo, hi, mode) \cup
             (IF ModeAfter(str, lo, hi, mode) = "identifier"
              THEN UnquotedFrom(str, hi + 1, "identifier")
              ELSE IF ModeAfter(str, lo, hi, mode) = "literal"
              THEN UnquotedFrom(str, hi + 1, "literal")
              ELSE UnquotedFrom(str, hi + 1, "code"))

\* The places of str outside quoted identifiers and string literals.
Unquoted(str) == UnquotedFrom(str, 1, "code")

SqlDone == sqlCall.pc = "table_to_query" /\ sqlCall.result[1].ok

\* C9 as stated: the query holds each of $1, $2 and $3 exactly once and no other
\* placeholder.
C9_Original ==
    SqlDone =>
        LET q == sqlCall.result[1].sql.query
        IN  /\ \A d \in {"1", "2", "3"} : Cardinality(Placeholders(q, d)) = 1
            /\ AnyPlaceholder(q) \subseteq
                   UNION {Placeholders(q, d) : d \in {"1", "2", "3"}}

\* C9 (amended): outside its quoted identifiers and string literals, the query
\* holds each of $1, $2 and $3 exactly twice (once in the ST_TileEnvelope given to
\* ST_AsMVTGeom, once in the one of the WHERE clause) and no other placeholder.
C9_PlaceholdersTwice ==
    SqlDone =>
        LET q == sqlCall.result[1].sql.query
            code == Unquoted(q)
        IN  /\ \A d \in {"1", "2", "3"} :
                   Cardinality(Placeholders(q, d) \cap code) = 2
            /\ AnyPlaceholder(q) \cap code \subseteq
                   UNION {Placeholders(q, d) : d \in {"1", "2", "3"}}

\* C9 witness: a table with a buffer on a server without tile margins, whose
\* schema and id column hold "$" and a digit.
C9_Witness ==
    /\ SqlDone
    /\ sqlCall.info.buffer = Some(64)
    /\ ~sqlCall.supports_tile_margin
    /\ sqlCall.info.schema = <<"q", "\"", "$", "4">>
    /\ sqlCall.info.id_column = Some(<<"$", "1">>)
    /\ Cardinality(AnyPlaceholder(sqlCall.result[1].sql.query)) > 6

====
